---- MODULE Spec2Model ----
(***************************************************************************)
(* Model of the Salesforce harvester's currency normalizer                 *)
(* (src/sf_to_elasticsearch.py): get_currency_conversion_rates and         *)
(* convert_currency_amount.                                                *)
(*                                                                         *)
(* Python values are records tagged by type: None, a number, a string.     *)
(* A number is an exact rational n/d in lowest terms with d > 0, so that   *)
(* two numbers are equal exactly when their records are; the binary        *)
(* rounding error of IEEE doubles is not modelled.  A string is a sequence *)
(* of one-character strings, so that upper() and strip() are computed.     *)
(***************************************************************************)
EXTENDS Integers, Sequences, FiniteSets, TLC

(***************************************************************************)
(* Python values                                                           *)
(***************************************************************************)
None == [t |-> "None"]

Abs(x) == IF x < 0 THEN -x ELSE x

RECURSIVE Gcd(_, _)
Gcd(a, b) == IF b = 0 THEN a ELSE Gcd(b, a % b)

\* The number n/d (d # 0), in lowest terms with a positive denominator.
Num(n, d) ==
    LET g == Gcd(Abs(n), Abs(d))
        s == IF d < 0 THEN -1 ELSE 1
    IN  [t |-> "num", n |-> s * (n \div g), d |-> s * (d \div g)]

Str(s) == [t |-> "str", s |-> s]

IsNum(v) == v.t = "num"

\* a * b, cancelling common factors before multiplying
Mul(a, b) ==
    LET g1 == Gcd(Abs(a.n), b.d)
        g2 == Gcd(Abs(b.n), a.d)
    IN  Num((a.n \div g1) * (b.n \div g2), (a.d \div g2) * (b.d \div g1))

\* a / b for b # 0
Div(a, b) == Mul(a, Num(b.d, b.n))

Positive(a) == a.n > 0

RECURSIVE Pow10(_)
Pow10(k) == IF k = 0 THEN 1 ELSE 10 * Pow10(k - 1)

\* Long division: the quotient q and remainder r of (q + r/d) * 10^k by 1,
\* one decimal digit at a time.
RECURSIVE LongDiv(_, _, _, _)
LongDiv(q, r, d, k) ==
    IF k = 0 THEN <<q, r>>
    ELSE LongDiv(q * 10 + (r * 10) \div d, (r * 10) % d, d, k - 1)

\* The rounding of the non-negative number whole + rem/d (0 <= rem < d) to
\* ndigits decimals, a tie going to the even neighbour, with the given sign.
RoundParts(sign, whole, rem, d, ndigits) ==
    LET qr   == LongDiv(whole, rem, d, ndigits)
        q    == qr[1]
        r    == qr[2]
        up   == 2 * r > d \/ (2 * r = d /\ q % 2 = 1)
        mag  == IF up THEN q + 1 ELSE q
    IN  Num(sign * mag, Pow10(ndigits))

\* Python's round(x, ndigits) on a number.
Round(x, ndigits) ==
    RoundParts(IF x.n < 0 THEN -1 ELSE 1, Abs(x.n) \div x.d, Abs(x.n) % x.d,
               x.d, ndigits)

\* Python's round(a * b, ndigits).  The product p*q/d is split into
\* p*(q \div d) + p*(q % d)/d, so that its numerator is never formed.
RoundMul(a, b, ndigits) ==
    LET g1 == Gcd(Abs(a.n), b.d)
        g2 == Gcd(Abs(b.n), a.d)
        p  == Abs(a.n) \div g1
        q  == Abs(b.n) \div g2
        d  == (a.d \div g2) * (b.d \div g1)
        lo == p * (q % d)
    IN  RoundParts(IF (a.n < 0) # (b.n < 0) THEN -1 ELSE 1,
                   p * (q \div d) + lo \div d, lo % d, d, ndigits)

\* Python truthiness of None, a number or a string: `not v`.
Falsy(v) ==
    \/ v.t = "None"
    \/ v.t = "num" /\ v.n = 0
    \/ v.t = "str" /\ v.s = <<>>

(***************************************************************************)
(* str.upper() and str.strip()                                             *)
(***************************************************************************)
LowerChars == <<"a","b","c","d","e","f","g","h","i","j","k","l","m",
                "n","o","p","q","r","s","t","u","v","w","x","y","z">>
UpperChars == <<"A","B","C","D","E","F","G","H","I","J","K","L","M",
                "N","O","P","Q","R","S","T","U","V","W","X","Y","Z">>
Whitespace == {" ", "\t", "\n", "\r"}

UpperChar(c) ==
    IF \E i \in 1..Len(LowerChars) : LowerChars[i] = c
    THEN UpperChars[CHOOSE i \in 1..Len(LowerChars) : LowerChars[i] = c]
    ELSE c

Upper(s) == [i \in 1..Len(s) |-> UpperChar(s[i])]

RECURSIVE LStrip(_)
LStrip(s) == IF s # <<>> /\ Head(s) \in Whitespace THEN LStrip(Tail(s)) ELSE s

RECURSIVE RStrip(_)
RStrip(s) ==
    IF s # <<>> /\ s[Len(s)] \in Whitespace
    THEN RStrip(SubSeq(s, 1, Len(s) - 1))
    ELSE s

Strip(s) == RStrip(LStrip(s))

(***************************************************************************)
(* Currency codes                                                          *)
(***************************************************************************)
USD == <<"U","S","D">>
EUR == <<"E","U","R">>
GBP == <<"G","B","P">>
JPY == <<"J","P","Y">>
CAD == <<"C","A","D">>
AUD == <<"A","U","D">>
CHF == <<"C","H","F">>
CNY == <<"C","N","Y">>
INR == <<"I","N","R">>
BRL == <<"B","R","L">>
\* a currency the static table does not list
SEK == <<"S","E","K">>

One == Num(1, 1)

(***************************************************************************)
(* get_currency_conversion_rates                                           *)
(***************************************************************************)
\* The static table: units of USD per 1 unit of the currency.
fallback_rates ==
    (USD :> Num(1, 1))     @@ (EUR :> Num(118, 100)) @@ (GBP :> Num(137, 100)) @@
    (JPY :> Num(67, 10000)) @@ (CAD :> Num(74, 100)) @@ (AUD :> Num(67, 100))  @@
    (CHF :> Num(114, 100)) @@ (CNY :> Num(14, 100))  @@ (INR :> Num(12, 1000)) @@
    (BRL :> Num(20, 100))

\* dict.get(key, default)
Get(dict, key, default) == IF key \in DOMAIN dict THEN dict[key] ELSE default

\* The exception a response raises inside the try block before any rate is
\* read, "" when none: urlopen fails or times out, the body is not JSON, or
\* the JSON value has no .get method.
FetchException(response) ==
    CASE response.kind = "network_error" -> "URLError"
      [] response.kind = "timeout"       -> "timeout"
      [] response.kind = "not_json"      -> "JSONDecodeError"
      [] response.kind = "not_object"    -> "AttributeError"
      [] OTHER                           -> ""

\* `data.get('success', False) and 'rates' in data`
UsesLiveRates(response) == response.success /\ response.has_rates

\* One entry of the live table, from the response's rate for `currency`.
LiveEntry(currency, rate, base_currency) ==
    IF Positive(rate)
    THEN IF currency # base_currency THEN Div(One, rate) ELSE One
    ELSE Get(fallback_rates, currency, One)

\* The loop over rates.items() and the forced base entry.  `rate > 0` on a
\* rate that is no number raises TypeError, which abandons the table.
LiveTable(rates, base_currency) ==
    IF \E c \in DOMAIN rates : ~IsNum(rates[c])
    THEN [exc |-> "TypeError", rates |-> <<>>]
    ELSE [exc |-> "",
          rates |-> [c \in (DOMAIN rates) \cup {base_currency} |->
                        IF c = base_currency THEN One
                        ELSE LiveEntry(c, rates[c], base_currency)]]

\* The static table rescaled to the requested base.
FallbackTable(base_currency) ==
    IF base_currency # USD
    THEN LET base_rate == Get(fallback_rates, base_currency, One)
         IN  [c \in DOMAIN fallback_rates |-> Div(fallback_rates[c], base_rate)]
    ELSE fallback_rates

\* Faulty variant: only the `except urllib.error.URLError` clause.
Absorbed_URLErrorOnly(exc) == exc = "URLError"

\* The classes the two except clauses absorb: URLError, then Exception.
ExceptionClasses ==
    {"URLError", "timeout", "JSONDecodeError", "AttributeError", "TypeError",
     "ZeroDivisionError"}

Absorbed(exc) == exc = "URLError" \/ exc \in ExceptionClasses

\* The whole call: the table returned, the path that produced it, the log
\* records written, and the exception that reaches the caller ("" when none).
get_currency_conversion_rates(base_currency, response) ==
    LET early == FetchException(response)
        live  == IF early = "" /\ UsesLiveRates(response)
                 THEN LiveTable(response.rates, base_currency)
                 ELSE [exc |-> "", rates |-> <<>>]
        exc   == IF early # "" THEN early ELSE live.exc
    IN  IF exc = "" /\ UsesLiveRates(response)
        THEN [rates |-> live.rates, path |-> "live", log |-> <<"debug">>,
              raised |-> ""]
        ELSE IF exc # "" /\ ~Absorbed(exc)
        THEN [rates |-> <<>>, path |-> "raised", log |-> <<>>, raised |-> exc]
        ELSE [rates |-> FallbackTable(base_currency), path |-> "fallback",
              log |-> IF exc # "" THEN <<"warning", "info">> ELSE <<"info">>,
              raised |-> ""]

(***************************************************************************)
(* convert_currency_amount                                                 *)
(***************************************************************************)
Note(text, arg) == [t |-> "note", text |-> text, arg |-> arg]

\* Faulty variant: the converted amount defaults to zero.
InitialResult_ZeroDefault(amount, from_currency, to_currency) ==
    [original_amount       |-> amount,
     original_currency     |-> from_currency,
     converted_amount      |-> Num(0, 1),
     converted_currency    |-> to_currency,
     conversion_rate       |-> Num(1, 1),
     conversion_successful |-> FALSE,
     conversion_note       |-> None]

\* The result dictionary as first built: a failure that keeps the amount.
InitialResult(amount, from_currency, to_currency) ==
    [original_amount       |-> amount,
     original_currency     |-> from_currency,
     converted_amount      |-> amount,
     converted_currency    |-> to_currency,
     conversion_rate       |-> One,
     conversion_successful |-> FALSE,
     conversion_note       |-> None]

\* Faulty variant: `amount is None`.
IsZeroAmount_NoneOnly(amount) == amount = None

\* `not amount or amount == 0`
IsZeroAmount(amount) == Falsy(amount) \/ (IsNum(amount) /\ amount.n = 0)

\* Faulty variant: `from_currency is None or to_currency is None`.
MissingCurrency_NoneOnly(from_currency, to_currency) ==
    from_currency = None \/ to_currency = None

\* `not from_currency or not to_currency`
MissingCurrency(from_currency, to_currency) ==
    Falsy(from_currency) \/ Falsy(to_currency)

\* Faulty variant: `code.upper()`.
NormalizeCode_NoStrip(code) == Upper(code.s)

\* `code.upper().strip()`
NormalizeCode(code) == Strip(Upper(code.s))

\* Whether the direct branch (amount * rate[from]) is taken.
DirectBranch(to_currency) == to_currency = USD

\* Faulty variant: the target's rate is read with conversion_rates[to_currency],
\* which raises KeyError when the table has no such entry.
AppliedRate_TargetRequired(from_currency, to_currency, conversion_rates) ==
    IF to_currency = USD
    THEN [exc |-> "", rate |-> conversion_rates[from_currency],
          lookups |-> {from_currency}]
    ELSE IF to_currency \notin DOMAIN conversion_rates
    THEN [exc |-> "KeyError", rate |-> One,
          lookups |-> {from_currency, to_currency}]
    ELSE IF conversion_rates[to_currency].n = 0
    THEN [exc |-> "ZeroDivisionError", rate |-> One,
          lookups |-> {from_currency, to_currency}]
    ELSE [exc |-> "",
          rate |-> Div(conversion_rates[from_currency],
                       conversion_rates[to_currency]),
          lookups |-> {from_currency, to_currency}]

\* The rate applied, from normalized codes with from_currency in the table:
\* the exception the arithmetic raises ("" when none), the rate, and the keys
\* of the table that were read.
AppliedRate(from_currency, to_currency, conversion_rates) ==
    IF DirectBranch(to_currency)
    THEN [exc |-> "", rate |-> conversion_rates[from_currency],
          lookups |-> {from_currency}]
    ELSE LET usd_rate == conversion_rates[from_currency]
             to_rate  == Get(conversion_rates, to_currency, One)
         IN  IF to_rate.n = 0
             THEN [exc |-> "ZeroDivisionError", rate |-> One,
                   lookups |-> {from_currency, to_currency}]
             ELSE [exc |-> "", rate |-> Div(usd_rate, to_rate),
                   lookups |-> {from_currency, to_currency}]

\* str(e) of the exceptions the arithmetic raises
ExceptionText(exc) ==
    IF exc = "ZeroDivisionError" THEN <<"float division by zero">> ELSE <<exc>>

\* Faulty variant: `except ValueError`.
Caught_ValueErrorOnly(exc) == exc = "ValueError"

\* `except Exception`
Caught(exc) == exc \in ExceptionClasses

\* Faulty variant: the amount is computed from the rounded rate.
ConvertedResult_FromRoundedRate(result, amount, conversion_rate) ==
    [result EXCEPT !.converted_amount      = RoundMul(amount, Round(conversion_rate, 6), 2),
                   !.conversion_rate       = Round(conversion_rate, 6),
                   !.conversion_successful = TRUE,
                   !.conversion_note       = Note("Converted via API rates", <<>>)]

\* The result of a successful computation: both roundings.
ConvertedResult(result, amount, conversion_rate) ==
    [result EXCEPT !.converted_amount      = RoundMul(amount, conversion_rate, 2),
                   !.conversion_rate       = Round(conversion_rate, 6),
                   !.conversion_successful = TRUE,
                   !.conversion_note       = Note("Converted via API rates", <<>>)]

\* The whole call: the dictionary returned, the exception raised inside the
\* try block, the exception that reaches the caller, and the table keys read
\* ("" for no exception).
convert_currency_amount(amount, from_currency, to_currency, conversion_rates) ==
    LET result == InitialResult(amount, from_currency, to_currency)
        done(r, keys) == [result |-> r, caught |-> "", raised |-> "",
                          lookups |-> keys]
    IN  IF IsZeroAmount(amount)
        THEN done([result EXCEPT !.conversion_successful = TRUE,
                                 !.converted_amount = Num(0, 1),
                                 !.conversion_note = Note("Zero amount", <<>>)], {})
        ELSE IF MissingCurrency(from_currency, to_currency)
        THEN done([result EXCEPT !.conversion_note =
                       Note("Missing currency information", <<>>)], {})
        ELSE LET from == NormalizeCode(from_currency)
                 to   == NormalizeCode(to_currency)
             IN  IF from = to
                 THEN done([result EXCEPT !.conversion_successful = TRUE,
                                          !.conversion_note = Note("Same currency", <<>>)],
                           {})
                 ELSE IF from \notin DOMAIN conversion_rates
                 THEN done([result EXCEPT !.conversion_note =
                                Note("Conversion rate not available for ", from)],
                           {from})
                 ELSE LET a == AppliedRate(from, to, conversion_rates)
                      IN  IF a.exc = ""
                          THEN done(ConvertedResult(result, amount, a.rate), a.lookups)
                          ELSE IF Caught(a.exc)
                          THEN [result |-> [result EXCEPT !.conversion_note =
                                    Note("Conversion calculation error: ",
                                         ExceptionText(a.exc))],
                                caught |-> a.exc, raised |-> "",
                                lookups |-> a.lookups]
                          ELSE [result |-> result, caught |-> "",
                                raised |-> a.exc, lookups |-> a.lookups]

(***************************************************************************)
(* The record-id extractors: re.search with the patterns of the scripts    *)
(***************************************************************************)
DigitChars == <<"0","1","2","3","4","5","6","7","8","9">>

\* the character class [A-Za-z0-9]
Alnum ==
    {LowerChars[i] : i \in DOMAIN LowerChars} \cup
    {UpperChars[i] : i \in DOMAIN UpperChars} \cup
    {DigitChars[i] : i \in DOMAIN DigitChars}

\* str.startswith
StartsWith(s, prefix) ==
    Len(s) >= Len(prefix) /\ SubSeq(s, 1, Len(prefix)) = prefix

\* how many characters of the class follow from position i on
AlnumRun(s, i) ==
    CHOOSE k \in 0..Len(s) :
        /\ \A j \in i..(i + k - 1) : j <= Len(s) /\ s[j] \in Alnum
        /\ i + k > Len(s) \/ s[i + k] \notin Alnum

Min(a, b) == IF a <= b THEN a ELSE b

\* re.search of a pattern `literal[A-Za-z0-9]{lo,hi}`: the leftmost place
\* where the literal is followed by at least lo characters of the class; the
\* greedy repetition takes as many as it can, at most hi.  group(1) is the
\* repetition when the pattern parenthesises it, else group(0), the whole
\* match, is taken.
Search(pattern, s) ==
    LET n    == Len(pattern.literal)
        hits == {p \in 1..Len(s) :
                    /\ p + n - 1 <= Len(s)
                    /\ SubSeq(s, p, p + n - 1) = pattern.literal
                    /\ AlnumRun(s, p + n) >= pattern.lo}
    IN  IF hits = {} THEN [match |-> FALSE, id |-> <<>>]
        ELSE LET p    == CHOOSE q \in hits : \A r \in hits : q <= r
                 take == Min(AlnumRun(s, p + n), pattern.hi)
             IN  [match |-> TRUE,
                  id |-> IF pattern.group
                         THEN SubSeq(s, p + n, p + n + take - 1)
                         ELSE SubSeq(s, p, p + n + take - 1)]

OpportunityPrefix == <<"0","0","6">>
AccountPrefix == <<"0","0","1">>

\* The loop over the patterns: the id of the first attempt, in list order,
\* that matched and passed the test after it; None when the loop ends
\* without a return.
FirstAccepted(attempts) ==
    LET good == {i \in DOMAIN attempts : attempts[i].match}
    IN  IF good = {} THEN None
        ELSE Str(attempts[CHOOSE i \in good : \A j \in good : i <= j].id)

\* sf_to_elasticsearch.py
es_patterns ==
    <<[literal |-> OpportunityPrefix, lo |-> 12, hi |-> 15, group |-> FALSE],
      [literal |-> <<"/","O","p","p","o","r","t","u","n","i","t","y","/">>,
       lo |-> 15, hi |-> 18, group |-> TRUE],
      [literal |-> <<"O","p","p","o","r","t","u","n","i","t","y","%","2","F">>,
       lo |-> 15, hi |-> 18, group |-> TRUE]>>

es_accepts(id) == StartsWith(id, OpportunityPrefix)

extract_opportunity_id(url) ==
    FirstAccepted([i \in DOMAIN es_patterns |->
        LET found == Search(es_patterns[i], url)
        IN  [found EXCEPT !.match = found.match /\ es_accepts(found.id)]])

\* sf_to_json.py
json_patterns ==
    <<[literal |-> <<"/">>, lo |-> 15, hi |-> 18, group |-> TRUE],
      [literal |-> <<"/","O","p","p","o","r","t","u","n","i","t","y","/">>,
       lo |-> 15, hi |-> 18, group |-> TRUE],
      [literal |-> OpportunityPrefix, lo |-> 12, hi |-> 15, group |-> FALSE]>>

json_accepts(id) == StartsWith(id, OpportunityPrefix) /\ Len(id) >= 15

json_extract_opportunity_id(url) ==
    FirstAccepted([i \in DOMAIN json_patterns |->
        LET found == Search(json_patterns[i], url)
        IN  [found EXCEPT !.match = found.match /\ json_accepts(found.id)]])

\* sf_cases_simple.py
account_patterns ==
    <<[literal |-> <<"/">>, lo |-> 15, hi |-> 18, group |-> TRUE],
      [literal |-> <<"/","A","c","c","o","u","n","t","/">>,
       lo |-> 15, hi |-> 18, group |-> TRUE],
      [literal |-> AccountPrefix, lo |-> 12, hi |-> 15, group |-> FALSE]>>

account_accepts(id) == StartsWith(id, AccountPrefix) /\ Len(id) >= 15

\* "Try as raw ID": the whole argument, by prefix and length alone
RawAccountId(url) ==
    StartsWith(url, AccountPrefix) /\ 15 <= Len(url) /\ Len(url) <= 18

extract_account_id(url) ==
    LET account_id ==
            FirstAccepted([i \in DOMAIN account_patterns |->
                LET found == Search(account_patterns[i], url)
                IN  [found EXCEPT
                        !.match = found.match /\ account_accepts(found.id)]])
    IN  IF account_id # None THEN account_id
        ELSE IF RawAccountId(url) THEN Str(url)
        ELSE None

\* str.lower()
Lower(s) ==
    [i \in 1..Len(s) |->
        IF \E k \in DOMAIN UpperChars : UpperChars[k] = s[i]
        THEN LowerChars[CHOOSE k \in DOMAIN UpperChars : UpperChars[k] = s[i]]
        ELSE s[i]]

\* `sub in s` of two strings
In(sub, s) ==
    \E p \in 1..(Len(s) - Len(sub) + 1) : SubSeq(s, p, p + Len(sub) - 1) = sub

salesforce_indicators ==
    <<<<".","s","a","l","e","s","f","o","r","c","e",".","c","o","m">>,
      <<".","l","i","g","h","t","n","i","n","g",".","f","o","r","c","e",".",
        "c","o","m">>,
      <<"/","l","i","g","h","t","n","i","n","g","/","r","/","O","p","p","o",
        "r","t","u","n","i","t","y","/">>,
      <<"O","p","p","o","r","t","u","n","i","t","y","%","2","F">>>>

\* validate_opportunity_url of a string (TRUE or FALSE)
validate_opportunity_url(url) ==
    IF url = <<>> THEN FALSE
    ELSE /\ \E i \in DOMAIN salesforce_indicators :
                In(salesforce_indicators[i], Lower(url))
         /\ extract_opportunity_id(url) # None

(***************************************************************************)
(* query_opportunity_data                                                  *)
(***************************************************************************)
\* a string literal of the source, and a nested record of a query result
Text(v) == [t |-> "text", v |-> v]
Dict(d) == [t |-> "dict", d |-> d]

\* `marker in error_str`: an exception text is the sequence of its parts, a
\* marker is in it when it is one of the parts
Contains(error_str, marker) ==
    \E i \in DOMAIN error_str : error_str[i] = marker

\* Faulty variant: the INVALID_FIELD test comes before the custom-field test.
error_rules_InvalidFieldFirst ==
    <<[markers |-> {"INVALID_FIELD"}, error_type |-> "INVALID_FIELD_ERROR",
       prefix |-> "Invalid field error: "],
      [markers |-> {"No such column", "__c"},
       error_type |-> "CUSTOM_FIELD_ERROR", prefix |-> "Custom field error: "],
      [markers |-> {"MALFORMED_QUERY"}, error_type |-> "MALFORMED_QUERY_ERROR",
       prefix |-> "Malformed query error: "],
      [markers |-> {"INSUFFICIENT_ACCESS"}, error_type |-> "ACCESS_ERROR",
       prefix |-> "Insufficient access to query opportunity: "]>>

\* Faulty variant: the MALFORMED_QUERY test comes before the INVALID_FIELD
\* test.
error_rules_MalformedFirst ==
    <<[markers |-> {"No such column", "__c"},
       error_type |-> "CUSTOM_FIELD_ERROR", prefix |-> "Custom field error: "],
      [markers |-> {"MALFORMED_QUERY"}, error_type |-> "MALFORMED_QUERY_ERROR",
       prefix |-> "Malformed query error: "],
      [markers |-> {"INVALID_FIELD"}, error_type |-> "INVALID_FIELD_ERROR",
       prefix |-> "Invalid field error: "],
      [markers |-> {"INSUFFICIENT_ACCESS"}, error_type |-> "ACCESS_ERROR",
       prefix |-> "Insufficient access to query opportunity: "]>>

\* The if/elif chain of the except block, top to bottom: the substrings a
\* branch tests for, the error type it sets, and what it puts before the
\* exception text in the message.
error_rules ==
    <<[markers |-> {"No such column", "__c"},
       error_type |-> "CUSTOM_FIELD_ERROR", prefix |-> "Custom field error: "],
      [markers |-> {"INVALID_FIELD"}, error_type |-> "INVALID_FIELD_ERROR",
       prefix |-> "Invalid field error: "],
      [markers |-> {"MALFORMED_QUERY"}, error_type |-> "MALFORMED_QUERY_ERROR",
       prefix |-> "Malformed query error: "],
      [markers |-> {"INSUFFICIENT_ACCESS"}, error_type |-> "ACCESS_ERROR",
       prefix |-> "Insufficient access to query opportunity: "]>>

\* the final else branch
default_rule ==
    [markers |-> {}, error_type |-> "QUERY_ERROR",
     prefix |-> "Error querying Salesforce: "]

\* The branch taken for an exception text: the error type and the message.
Classify(error_str) ==
    LET taken == {i \in DOMAIN error_rules :
                    \A m \in error_rules[i].markers : Contains(error_str, m)}
        rule  == IF taken = {} THEN default_rule
                 ELSE error_rules[CHOOSE i \in taken : \A j \in taken : i <= j]
    IN  [error_type |-> rule.error_type,
         error_message |-> Note(rule.prefix, error_str)]

\* Faulty variant: the except block returns None, as sf_to_json does.
error_data_None(opportunity_id, target_currency, error_str) == None

\* the document of the except block
error_data(opportunity_id, target_currency, error_str) ==
    LET c == Classify(error_str)
    IN  [opportunity_id        |-> opportunity_id,
         opportunity_name      |-> Note("ERROR: ", <<c.error_type>>),
         description           |-> c.error_message,
         amount                |-> Num(0, 1),
         currency_iso_code     |-> Str(USD),
         amount_converted      |-> Num(0, 1),
         converted_currency    |-> target_currency,
         conversion_rate       |-> One,
         conversion_successful |-> TRUE,
         conversion_note       |-> Note("No amount to convert (error)", <<>>),
         close_date            |-> None,
         stage_name            |-> Text("ERROR"),
         type                  |-> Text("ERROR"),
         probability           |-> Num(0, 1),
         is_won                |-> FALSE,
         is_closed             |-> FALSE,
         account_id            |-> None,
         account_name          |-> Text("ERROR"),
         owner_id              |-> None,
         owner_name            |-> Text("ERROR"),
         created_date          |-> None,
         last_modified_date    |-> None,
         extracted_at          |-> Text("utcnow"),
         source                |-> Text("salesforce_opportunity_integration_error"),
         error_status          |-> Text(c.error_type),
         error_message         |-> c.error_message]

\* Faulty variant: the zero-row document carries the generic error status.
not_found_data_QueryError(opportunity_id, target_currency) ==
    [error_data(opportunity_id, target_currency, <<>>) EXCEPT
        !.stage_name = Text("NOT_FOUND"), !.type = Text("MISSING")]

\* the document of the zero-row branch
not_found_data(opportunity_id, target_currency) ==
    [opportunity_id        |-> opportunity_id,
     opportunity_name      |-> Text("OPPORTUNITY NOT FOUND"),
     description           |-> Text("opportunity deleted or not found"),
     amount                |-> Num(0, 1),
     currency_iso_code     |-> Str(USD),
     amount_converted      |-> Num(0, 1),
     converted_currency    |-> target_currency,
     conversion_rate       |-> One,
     conversion_successful |-> TRUE,
     conversion_note       |-> Note("No amount to convert", <<>>),
     close_date            |-> None,
     stage_name            |-> Text("NOT_FOUND"),
     type                  |-> Text("MISSING"),
     probability           |-> Num(0, 1),
     is_won                |-> FALSE,
     is_closed             |-> FALSE,
     account_id            |-> None,
     account_name          |-> Text("UNKNOWN"),
     owner_id              |-> None,
     owner_name            |-> Text("UNKNOWN"),
     created_date          |-> None,
     last_modified_date    |-> None,
     extracted_at          |-> Text("utcnow"),
     source                |-> Text("salesforce_opportunity_integration_not_found"),
     error_status          |-> Text("OPPORTUNITY_NOT_FOUND"),
     error_message         |-> Text("opportunity deleted or not found")]

\* float(opportunity[key]) if opportunity.get(key) else 0.0: the value, or
\* the exception float() raises on a text that is no number
FloatOrZero(opportunity, key) ==
    LET v == Get(opportunity, key, None)
    IN  IF Falsy(v) THEN [exc |-> <<>>, value |-> Num(0, 1)]
        ELSE IF IsNum(v) THEN [exc |-> <<>>, value |-> v]
        ELSE [exc |-> <<"could not convert string to float">>, value |-> None]

\* opportunity[key]: the value, or KeyError(key), whose text is the quoted key
Index(opportunity, key) ==
    IF key \in DOMAIN opportunity
    THEN [exc |-> <<>>, value |-> opportunity[key]]
    ELSE [exc |-> <<"'", key, "'">>, value |-> None]

\* Faulty variant: opportunity[relation][key] without the .get() test.
Relation_Unguarded(opportunity, relation, key) ==
    IF relation \notin DOMAIN opportunity
    THEN [exc |-> <<"'", relation, "'">>, value |-> None]
    ELSE IF opportunity[relation] = None
    THEN [exc |-> <<"'NoneType' object is not subscriptable">>, value |-> None]
    ELSE Index(opportunity[relation].d, key)

\* opportunity[relation][key] if opportunity.get(relation) else None
Relation(opportunity, relation, key) ==
    IF Falsy(Get(opportunity, relation, None))
    THEN [exc |-> <<>>, value |-> None]
    ELSE Index(opportunity[relation].d, key)

\* bool(opportunity.get(key, False)) of a JSON true, false or null
JsonBool(b) == [t |-> "bool", b |-> b]
Bool(opportunity, key) ==
    LET v == Get(opportunity, key, JsonBool(FALSE)) IN v.t = "bool" /\ v.b

\* The text of the first exception among the steps, in the order they run;
\* <<>> if none raises.
FirstException(steps) ==
    IF \A i \in DOMAIN steps : steps[i] = <<>> THEN <<>>
    ELSE steps[CHOOSE i \in DOMAIN steps :
                   steps[i] # <<>> /\ \A j \in 1..(i - 1) : steps[j] = <<>>]

\* The whole call against one answer of sf.query and one answer of the rate
\* source: the document returned, the branch that built it, whether the rate
\* table was fetched and the conversion run, and the exception that reaches
\* the caller (<<>> when none).
query_opportunity_data(sf, opportunity_id, target_currency, response) ==
    LET opportunity == sf.record
        rates == get_currency_conversion_rates(target_currency, response)
        original_currency == Get(opportunity, "CurrencyIsoCode", Str(USD))
        original_amount == FloatOrZero(opportunity, "Amount")
        conversion ==
            convert_currency_amount(original_amount.value, original_currency,
                                    Str(target_currency), rates.rates)
        currency_conversion == conversion.result
        Id == Index(opportunity, "Id")
        Name == Index(opportunity, "Name")
        probability == FloatOrZero(opportunity, "Probability")
        account_id == Relation(opportunity, "Account", "Id")
        account_name == Relation(opportunity, "Account", "Name")
        owner_id == Relation(opportunity, "Owner", "Id")
        owner_name == Relation(opportunity, "Owner", "Name")
        fetch_exc == IF rates.raised = "" THEN <<>> ELSE <<rates.raised>>
        \* str(e) of the exception the try block ends with
        raised ==
            IF sf.kind = "exception" THEN sf.error_str
            ELSE IF fetch_exc # <<>> THEN fetch_exc
            ELSE IF original_amount.exc # <<>> THEN original_amount.exc
            ELSE IF conversion.raised # "" THEN <<conversion.raised>>
            ELSE FirstException(<<Id.exc, Name.exc, probability.exc,
                                  account_id.exc, account_name.exc,
                                  owner_id.exc, owner_name.exc>>)
        data ==
            [opportunity_id        |-> Id.value,
             opportunity_name      |-> Name.value,
             description           |-> Get(opportunity, "Description", None),
             amount                |-> original_amount.value,
             currency_iso_code     |-> original_currency,
             amount_converted      |-> currency_conversion.converted_amount,
             converted_currency    |-> currency_conversion.converted_currency,
             conversion_rate       |-> currency_conversion.conversion_rate,
             conversion_successful |-> currency_conversion.conversion_successful,
             conversion_note       |-> currency_conversion.conversion_note,
             close_date            |-> Get(opportunity, "CloseDate", None),
             stage_name            |-> Get(opportunity, "StageName", None),
             type                  |-> Get(opportunity, "Type", None),
             probability           |-> probability.value,
             is_won                |-> Bool(opportunity, "IsWon"),
             is_closed             |-> Bool(opportunity, "IsClosed"),
             account_id            |-> account_id.value,
             account_name          |-> account_name.value,
             owner_id              |-> owner_id.value,
             owner_name            |-> owner_name.value,
             created_date          |-> Get(opportunity, "CreatedDate", None),
             last_modified_date    |-> Get(opportunity, "LastModifiedDate", None),
             extracted_at          |-> Text("utcnow"),
             source                |-> Text("salesforce_opportunity_integration")]
    IN  IF sf.kind = "result" /\ sf.totalSize = 0
        THEN [branch |-> "not_found",
              data |-> not_found_data(opportunity_id, Str(target_currency)),
              fetched |-> FALSE, converted |-> FALSE, raised |-> <<>>]
        ELSE IF sf.kind = "exception" \/ raised # <<>>
        THEN [branch |-> "error",
              data |-> error_data(opportunity_id, Str(target_currency), raised),
              fetched |-> sf.kind = "result",
              converted |-> /\ sf.kind = "result" /\ fetch_exc = <<>>
                            /\ original_amount.exc = <<>>,
              raised |-> <<>>]
        ELSE [branch |-> "found", data |-> data,
              fetched |-> TRUE, converted |-> TRUE, raised |-> <<>>]

\* sf_to_json.query_opportunity_data: None for zero rows and for every
\* exception, else the document built by indexing the record
json_query_opportunity_data(sf, opportunity_id) ==
    LET opportunity == sf.record
        field(key) == Index(opportunity, key)
        account_name == Relation(opportunity, "Account", "Name")
        account_id == Relation(opportunity, "Account", "Id")
        owner_name == Relation(opportunity, "Owner", "Name")
        owner_id == Relation(opportunity, "Owner", "Id")
        raised ==
            IF sf.kind = "exception" THEN sf.error_str
            ELSE FirstException(
                    <<field("Id").exc, field("Name").exc, account_name.exc,
                      account_id.exc, field("CloseDate").exc,
                      field("Amount").exc, field("StageName").exc,
                      field("Type").exc, field("Probability").exc,
                      field("CreatedDate").exc, field("LastModifiedDate").exc,
                      owner_name.exc, owner_id.exc, field("Description").exc,
                      field("LeadSource").exc,
                      field("ForecastCategoryName").exc>>)
        data ==
            [opportunity_id     |-> field("Id").value,
             opportunity_name   |-> field("Name").value,
             account_name       |-> account_name.value,
             account_id         |-> account_id.value,
             close_date         |-> field("CloseDate").value,
             amount             |-> field("Amount").value,
             stage_name         |-> field("StageName").value,
             type               |-> field("Type").value,
             probability        |-> field("Probability").value,
             created_date       |-> field("CreatedDate").value,
             last_modified_date |-> field("LastModifiedDate").value,
             owner_name         |-> owner_name.value,
             owner_id           |-> owner_id.value,
             description        |-> field("Description").value,
             lead_source        |-> field("LeadSource").value,
             forecast_category  |-> field("ForecastCategoryName").value,
             extracted_at       |-> Text("utcnow"),
             source             |-> Text("salesforce")]
    IN  IF sf.kind = "result" /\ sf.totalSize = 0
        THEN [branch |-> "not_found", data |-> None, fetched |-> FALSE,
              converted |-> FALSE, raised |-> <<>>]
        ELSE IF sf.kind = "exception" \/ raised # <<>>
        THEN [branch |-> "error", data |-> None, fetched |-> FALSE,
              converted |-> FALSE, raised |-> <<>>]
        ELSE [branch |-> "found", data |-> data, fetched |-> FALSE,
              converted |-> FALSE, raised |-> <<>>]

(***************************************************************************)
(* The inputs the two functions are applied to                             *)
(***************************************************************************)
\* How many currencies a live response lists at most.
MaxLiveCodes == 2

LiveCodeOrder == <<JPY, EUR, USD, SEK>>
LiveCodes == {LiveCodeOrder[i] : i \in 1..MaxLiveCodes}

\* The rates a response may carry for a currency: a plausible positive rate
\* (units of the currency per 1 unit of base), zero, a negative number, and a
\* value that is no number.
PlausibleRate(c) ==
    CASE c = JPY -> Num(150, 1)
      [] c = EUR -> Num(85, 100)
      [] c = SEK -> Num(11, 1)
      [] OTHER   -> Num(1, 1)

LiveValueKinds == {"positive", "zero", "negative", "text"}

LiveValue(c, kind) ==
    CASE kind = "positive" -> PlausibleRate(c)
      [] kind = "zero"     -> Num(0, 1)
      [] kind = "negative" -> Num(-1, 1)
      [] OTHER             -> Str(<<"n", "/", "a">>)

LiveBodies ==
    UNION {{[c \in S |-> LiveValue(c, k[c])] : k \in [S -> LiveValueKinds]} :
           S \in SUBSET LiveCodes}

NoResponse == [kind |-> "none", success |-> FALSE, has_rates |-> FALSE, rates |-> <<>>]

\* What urlopen and json.loads can produce: the call fails, the body is not
\* JSON, the JSON value is no object, or it is an object with or without the
\* 'success' and 'rates' keys.
Responses ==
    {[NoResponse EXCEPT !.kind = k] :
        k \in {"network_error", "timeout", "not_json", "not_object"}}
    \cup {[NoResponse EXCEPT !.kind = "object", !.success = s] : s \in BOOLEAN}
    \cup {[kind |-> "object", success |-> s, has_rates |-> TRUE, rates |-> b] :
            s \in BOOLEAN, b \in LiveBodies}

\* The base currencies requested: the target currency of a run, normalized
\* by get_target_currency_from_config.
Bases == {USD, EUR, JPY, SEK}

\* Tables a caller may hand to convert_currency_amount directly, each with
\* the base it is built for.
CallerTables ==
    {[base |-> USD, rates |-> (USD :> One)],
     [base |-> USD, rates |-> (JPY :> Num(67, 10000)) @@ (USD :> One)],
     [base |-> USD, rates |-> <<>>],
     [base |-> USD,
      rates |-> (USD :> One) @@ (EUR :> Num(0, 1)) @@ (JPY :> Num(67, 10000))]}

Amounts == {None, Num(0, 1), Num(100, 1), Num(-100, 1), Num(100000, 1)}

Codes ==
    {None, Str(<<>>), Str(USD), Str(<<"u","s","d"," ">>), Str(EUR), Str(JPY),
     Str(SEK)}

(***************************************************************************)
(* The inputs the extractors are applied to                                *)
(***************************************************************************)
\* How many characters follow the 3-character prefix at most: 12 to 15 make
\* a valid id, fewer and more do not.
MaxTail == 17

\* the characters of an id after its prefix, and the same with separators
FillerChars == <<"x","0","0","0","0","0","A","b","C","d","E","f","G","h","I",
                 "j","K","l","M","n","Q">>
Filler(k) == [i \in 1..k |-> FillerChars[((i - 1) % Len(FillerChars)) + 1]]
Dashed(k) == [i \in 1..k |-> IF i % 4 = 0 THEN "-" ELSE Filler(k)[i]]

\* The texts an id is met in: alone, behind a host that is no Salesforce
\* host, in a relative URL-encoded link, in a Lightning record URL, in a
\* URL-encoded redirect, in a classic URL with a query string, in an Account
\* record URL, and in a Lightning URL of an org whose host name holds the
\* prefix itself.
UrlShapes ==
    {[shape |-> "bare",
      before |-> <<>>,
      after |-> <<>>],
     [shape |-> "proxy",
      before |-> <<"h","t","t","p","s",":","/","/","c","r","m",".","e","x",
                   "a","m","p","l","e",".","c","o","m","/","l","i","g","h",
                   "t","n","i","n","g","/","r","/","O","p","p","o","r","t",
                   "u","n","i","t","y","/">>,
      after |-> <<"/","v","i","e","w">>],
     [shape |-> "relative",
      before |-> <<"/","o","n","e","/","o","n","e",".","a","p","p","?","u",
                   "=","O","p","p","o","r","t","u","n","i","t","y","%","2",
                   "F">>,
      after |-> <<"%","2","F","v","i","e","w">>],
     [shape |-> "lightning",
      before |-> <<"h","t","t","p","s",":","/","/","a","c","m","e",".","l",
                   "i","g","h","t","n","i","n","g",".","f","o","r","c","e",
                   ".","c","o","m","/","l","i","g","h","t","n","i","n","g",
                   "/","r","/","O","p","p","o","r","t","u","n","i","t","y",
                   "/">>,
      after |-> <<"/","v","i","e","w">>],
     [shape |-> "encoded",
      before |-> <<"h","t","t","p","s",":","/","/","a","c","m","e",".","m",
                   "y",".","s","a","l","e","s","f","o","r","c","e",".","c",
                   "o","m","/","o","n","e",".","a","p","p","?","u","=","O",
                   "p","p","o","r","t","u","n","i","t","y","%","2","F">>,
      after |-> <<"%","2","F","v","i","e","w">>],
     [shape |-> "classic",
      before |-> <<"h","t","t","p","s",":","/","/","a","c","m","e",".","m",
                   "y",".","s","a","l","e","s","f","o","r","c","e",".","c",
                   "o","m","/">>,
      after |-> <<"?","s","r","P","o","s","=","0","&","s","r","K","p","=","0",
                  "0","6">>],
     [shape |-> "account",
      before |-> <<"h","t","t","p","s",":","/","/","a","c","m","e",".","l",
                   "i","g","h","t","n","i","n","g",".","f","o","r","c","e",
                   ".","c","o","m","/","l","i","g","h","t","n","i","n","g",
                   "/","r","/","A","c","c","o","u","n","t","/">>,
      after |-> <<"/","v","i","e","w">>],
     [shape |-> "org006",
      before |-> <<"h","t","t","p","s",":","/","/","o","r","g","0","0","6",
                   "x","0","0","0","0","0","k","9","Z","b","Q","w",".","m",
                   "y",".","s","a","l","e","s","f","o","r","c","e",".","c",
                   "o","m","/","l","i","g","h","t","n","i","n","g","/","r",
                   "/","O","p","p","o","r","t","u","n","i","t","y","/">>,
      after |-> <<"/","v","i","e","w">>]}

\* what the caller passes: the shape, the id-like run put in it, the text
Urls ==
    {[shape |-> u.shape, prefix |-> p, tail |-> t,
      text |-> u.before \o p \o t \o u.after] :
        u \in UrlShapes, p \in {OpportunityPrefix, AccountPrefix},
        t \in {Filler(k) : k \in 0..MaxTail} \cup {Dashed(k) : k \in 0..MaxTail}}
    \cup {[shape |-> "empty", prefix |-> <<>>, tail |-> <<>>, text |-> <<>>]}

(***************************************************************************)
(* The inputs query_opportunity_data is applied to                         *)
(***************************************************************************)
\* the ids queried: a 15-character and an 18-character opportunity id
QueryIds == {Str(OpportunityPrefix \o Filler(12)),
             Str(OpportunityPrefix \o Filler(15))}

\* the target currency of the run
QueryTargets == {USD, EUR}

\* What an exception text of sf.query may hold: the markers the except block
\* looks for, and text it does not look for.
ErrorParts ==
    <<"INVALID_FIELD", "No such column", "__c", "MALFORMED_QUERY",
      "INSUFFICIENT_ACCESS", "Session expired or invalid">>
ErrorText(S) ==
    LET F[i \in 0..Len(ErrorParts)] ==
            IF i = 0 THEN <<>>
            ELSE IF i \in S THEN Append(F[i - 1], ErrorParts[i]) ELSE F[i - 1]
    IN  F[Len(ErrorParts)]
ErrorTexts == {ErrorText(S) : S \in SUBSET DOMAIN ErrorParts}

\* a key the row does not carry
Absent == [t |-> "absent"]
\* the Account and Owner relations of a row
Acme == Dict([Id |-> Str(AccountPrefix \o Filler(15)), Name |-> Text("Acme")])
Owner == Dict([Id |-> Text("005x0000001"), Name |-> Text("Dana Owner")])

\* One row of the Opportunity query, as simple_salesforce hands it over.
RawRecord(name, account, owner, amount, currency) ==
    LET row == [Id               |-> Str(OpportunityPrefix \o Filler(15)),
                Name             |-> name,
                Account          |-> account,
                Owner            |-> owner,
                Amount           |-> amount,
                CurrencyIsoCode  |-> currency,
                CloseDate        |-> Text("2024-06-30"),
                StageName        |-> Text("Negotiation"),
                Type             |-> None,
                Probability      |-> Num(50, 1),
                IsWon            |-> JsonBool(FALSE),
                IsClosed         |-> JsonBool(FALSE),
                CreatedDate      |-> Text("2024-01-01T00:00:00.000+0000"),
                LastModifiedDate |-> Text("2024-02-01T00:00:00.000+0000"),
                Description      |-> None]
    IN  [k \in {f \in DOMAIN row : row[f] # Absent} |-> row[k]]

RawRecords ==
    {RawRecord(name, account, owner, amount, currency) :
        name \in {Absent, Text("Big Deal")},
        account \in {Absent, None, Acme},
        owner \in {Absent, None, Owner},
        amount \in {Absent, None, Num(0, 1), Num(100, 1),
                    Str(<<"n", "/", "a">>)},
        currency \in {Absent, None, Str(EUR), Str(SEK)}}

\* the row of the sf_to_json query: no currency and status columns, but the
\* lead source and the forecast category
JsonRecord(row) ==
    [k \in ((DOMAIN row) \ {"CurrencyIsoCode", "IsWon", "IsClosed"})
            \cup {"LeadSource", "ForecastCategoryName"} |->
        IF k \in DOMAIN row THEN row[k] ELSE None]

NoAnswer == [kind |-> "none", error_str |-> <<>>, totalSize |-> 0,
             record |-> <<>>]

\* What sf.query can do: raise, answer with zero rows, answer with one row.
SfAnswers(rows) ==
    {[NoAnswer EXCEPT !.kind = "exception", !.error_str = e] : e \in ErrorTexts}
    \cup {[NoAnswer EXCEPT !.kind = "result"]}
    \cup {[NoAnswer EXCEPT !.kind = "result", !.totalSize = 1, !.record = r] :
            r \in rows}

\* the answers of the rate source met during a query: the failures, and the
\* objects that list every live code with rates of one kind
QueryResponses ==
    {r \in Responses :
        r.has_rates =>
            /\ DOMAIN r.rates = LiveCodes
            /\ \E k \in LiveValueKinds :
                  \A c \in LiveCodes : r.rates[c] = LiveValue(c, k)}

(***************************************************************************)
(* sf_auth: get_token, authenticate, get_salesforce_connection             *)
(***************************************************************************)
NoToken == [access_token |-> None, instance_url |-> None]

\* What `sf org display --json` can answer: a failure exit, output that is
\* no JSON, JSON without the keys, JSON whose "result" is no object, and
\* JSON with an access token and an instance URL, each possibly empty.
DisplayOutputs ==
    {[NoToken EXCEPT !.access_token = Text(k)] :
        k \in {"exit 1", "not JSON", "no key", "result null"}}
    \cup {[access_token |-> Str(t), instance_url |-> Str(u)] :
            t \in {<<>>, <<"t", "o", "k">>}, u \in {<<>>, <<"u", "r", "l">>}}

\* get_token on one answer: the pair returned, or the exception raised.
\* JSONDecodeError and KeyError are caught; indexing a "result" that is no
\* object raises TypeError, which is not.
get_token(output) ==
    IF output.instance_url # None
    THEN [raised |-> "", token |-> output]
    ELSE IF output.access_token = Text("result null")
    THEN [raised |-> "TypeError", token |-> NoToken]
    ELSE [raised |-> "", token |-> NoToken]

\* `access_token and instance_url`
HasToken(token) == ~Falsy(token.access_token) /\ ~Falsy(token.instance_url)

\* whether the call goes on to authenticate(): no stored token, or one that
\* validate_token rejects
MustAuthenticate(token, accepted) == ~HasToken(token) \/ ~accepted

\* The whole call: `stored` and `fresh` are the answers of the first and the
\* second `sf org display`, `accepted` whether Salesforce accepts the stored
\* token, `login` whether `sf org login web` exits with 0.  Returned: the
\* connection (None if the call raises), the exception, how often
\* authenticate() ran.
get_salesforce_connection(stored, accepted, login, fresh) ==
    LET first  == get_token(stored)
        second == get_token(fresh)
        Salesforce(token) == [connection |-> token, raised |-> ""]
        Raise(exc) == [connection |-> None, raised |-> exc]
    IN  IF first.raised # "" THEN Raise(first.raised) @@ [authenticated |-> 0]
        ELSE IF ~MustAuthenticate(first.token, accepted)
        THEN Salesforce(first.token) @@ [authenticated |-> 0]
        ELSE [authenticated |-> 1] @@
             (IF ~login THEN Raise("Authentication failed")
              ELSE IF second.raised # "" THEN Raise(second.raised)
              ELSE IF HasToken(second.token) THEN Salesforce(second.token)
              ELSE Raise("Failed to retrieve token after authentication"))

(***************************************************************************)
(* The command line, the target currency, the index, one opportunity       *)
(***************************************************************************)
\* parser.add_argument('--target-currency', default='USD'): the attribute
\* argparse stores for an option that is given (a text) or not given (None)
ParseTargetCurrency(option) == IF option = None THEN Str(USD) ELSE option

\* get_target_currency_from_config(logger, args): args is the Namespace of
\* the parser, env the value of SF_TARGET_CURRENCY ('' when unset)
get_target_currency_from_config(args, env) ==
    IF ~Falsy(args.target_currency)
    THEN Strip(Upper(args.target_currency.s))
    ELSE IF Strip(Upper(env)) # <<>> THEN Strip(Upper(env))
    ELSE USD

\* doc_id = data['opportunity_id']
DocId(data) == data.opportunity_id

\* index_opportunity_data(es, data, index_name, logger): es.index stores the
\* body under the id (es_ok) or raises, and then the index is as it was.
index_opportunity_data(stored, data, es_ok) ==
    [ok |-> es_ok,
     index |-> IF es_ok THEN (DocId(data) :> data) @@ stored ELSE stored]

\* the URLs handed over: the empty text, and Lightning record URLs of an
\* opportunity and of an account with a run too short for an id, a
\* 15-character and an 18-character id
SingleUrls ==
    {u \in Urls :
        \/ u.shape = "empty"
        \/ /\ u.shape = "lightning"
           /\ u.tail \in {Filler(3), Filler(12), Filler(15)}}

\* extract_opportunity_id on each of these URLs
ExtractedId ==
    [text \in {u.text : u \in SingleUrls} |-> extract_opportunity_id(text)]

\* the Elasticsearch client and configuration main hands over
Client == Text("Elasticsearch")
Config == Dict([index |-> Text("salesforce-opps")])

\* Faulty variant: the result does not carry the URL it is about.
NoResult_NoUrl(url) ==
    [url |-> <<>>, success |-> FALSE, opportunity_id |-> None,
     opportunity_name |-> None, error |-> None, data |-> None]

\* the result dictionary process_single_opportunity starts from
NoResult(url) ==
    [url |-> url, success |-> FALSE, opportunity_id |-> None,
     opportunity_name |-> None, error |-> None, data |-> None]

\* `not args.json_only and es and es_config`
ShouldIndex(args, es, es_config) ==
    ~args.json_only /\ ~Falsy(es) /\ ~Falsy(es_config)

\* Faulty variant: a failed indexing call fails the URL.
Success_NeedsIndexing(indexed_ok) == indexed_ok

\* result['success'] = True, whatever the indexing call returned
Success(indexed_ok) == TRUE

\* Faulty variant: the query is made before the id is looked at.
ProceedsWithId_Always(opportunity_id) == TRUE

\* whether the function goes on after `if not opportunity_id: return`
ProceedsWithId(opportunity_id) == ~Falsy(opportunity_id)

\* process_single_opportunity(sf, url, es, es_config, args, logger) with the
\* answers of Salesforce (sf), of the rate source (response) and of es.index
\* (es_ok), on the index as it is (stored).  Returned: the result, the index
\* afterwards, and whether sf.query, the rate source and es.index were called.
process_single_opportunity(sf, url, es, es_config, args, env, response, es_ok, stored) ==
    LET opportunity_id == ExtractedId[url]
        target_currency == get_target_currency_from_config(args, env)
        sends == ShouldIndex(args, es, es_config)
        additional_error == "Failed to index to Elasticsearch"
        \* the function from the answer of query_opportunity_data on
        Processed(answer) ==
            LET data == answer.data
                is_error_document == Get(data, "error_status", None) # None
                error == IF is_error_document
                         THEN Get(data, "error_message", Text("Unknown error"))
                         ELSE None
                indexed == index_opportunity_data(stored, data, es_ok)
            IN  [result |->
                    [NoResult(url) EXCEPT
                     !.success = Success(sends => indexed.ok),
                     !.opportunity_id = opportunity_id,
                     !.opportunity_name =
                         Get(data, "opportunity_name", Text("Unknown")),
                     !.error =
                         IF sends /\ ~indexed.ok
                         THEN IF is_error_document
                              THEN Note("{} + {}", <<error, additional_error>>)
                              ELSE Text(additional_error)
                         ELSE error,
                     !.data = data],
                 queried |-> TRUE, fetched |-> answer.fetched, sent |-> sends,
                 index |-> IF sends THEN indexed.index ELSE stored]
    IN  IF ~ProceedsWithId(opportunity_id)
        THEN [result |-> [NoResult(url) EXCEPT !.error =
                             Text("Could not extract opportunity ID from URL")],
              queried |-> FALSE, fetched |-> FALSE, sent |-> FALSE,
              index |-> stored]
        ELSE \* the one answer of the one query made
             CHOOSE done \in
                 {Processed(answer) : answer \in
                     {query_opportunity_data(sf, opportunity_id,
                                             target_currency, response)}} : TRUE

(***************************************************************************)
(* main: the URLs, the connections, the loop                               *)
(***************************************************************************)
\* read_urls_from_file: the lines of the file that validate
read_urls_from_file(lines) ==
    SelectSeq(lines, LAMBDA line : validate_opportunity_url(line))

\* The URLs main goes on with, or the exit: a file without a valid line
\* ends the run, and so does an invalid URL unless --continue-on-error is
\* given, which drops the invalid ones.
ValidatedUrls(mode, texts, continue_on_error) ==
    LET urls == IF mode = "file" THEN read_urls_from_file(texts) ELSE texts
        invalid_urls ==
            SelectSeq(urls, LAMBDA u : ~validate_opportunity_url(u))
        valid_urls == SelectSeq(urls, LAMBDA u : validate_opportunity_url(u))
    IN  IF mode = "file" /\ urls = <<>> THEN [exit |-> TRUE, urls |-> urls]
        ELSE IF invalid_urls # <<>> /\ ~continue_on_error
        THEN [exit |-> TRUE, urls |-> urls]
        ELSE [exit |-> FALSE, urls |-> valid_urls]

\* What the run meets outside the URLs: everything works, or one thing does
\* not.  Without the elasticsearch package the name Elasticsearch is never
\* bound; the annotation of connect_elasticsearch reads it when the module is
\* loaded by an interpreter that evaluates annotations at definition
\* ("NameError"), and not by one that defers them ("no library").
Environments ==
    {"ok", "NameError", "no library", "no connection", "no config",
     "invalid config", "connect failed", "create failed"}

\* The Elasticsearch setup of main: args.json_only, es and es_config after it.
ElasticsearchSetup(json_only, env) ==
    IF json_only THEN [json_only |-> TRUE, es |-> None, es_config |-> None]
    ELSE IF env = "no library"
    THEN [json_only |-> TRUE, es |-> None, es_config |-> None]
    ELSE IF env = "no config"
    THEN [json_only |-> TRUE, es |-> None, es_config |-> None]
    ELSE IF env = "invalid config"
    THEN [json_only |-> TRUE, es |-> None, es_config |-> Config]
    ELSE IF env = "connect failed"
    THEN [json_only |-> TRUE, es |-> None, es_config |-> Config]
    ELSE IF env = "create failed"
    THEN [json_only |-> TRUE, es |-> Client, es_config |-> Config]
    ELSE [json_only |-> FALSE, es |-> Client, es_config |-> Config]

\* `if not result['success'] and not args.continue_on_error: sys.exit(1)`
StopsOnError(result, continue_on_error) ==
    ~result.success /\ ~continue_on_error

(***************************************************************************)
(* State                                                                   *)
(***************************************************************************)
VARIABLES
    base_currency,  \* the base the table was requested or built for
    response,       \* what the rate source answered
    table,          \* what get_currency_conversion_rates returned
    call,           \* the arguments of convert_currency_amount
    conv,           \* what convert_currency_amount returned
    url,            \* the text handed to the id extractors
    ids,            \* what each extractor returned for it
    query,          \* the arguments and the environment of a query
    returned,       \* what query_opportunity_data returned
    auth,           \* one call of get_salesforce_connection
    single,         \* one call of process_single_opportunity
    run,            \* one run of main
    index           \* the Elasticsearch index: document id -> document

vars == <<base_currency, response, table, call, conv, url, ids, query,
          returned, auth, single, run, index>>

mainVars == <<auth, single, run, index>>

NoTable == [rates |-> <<>>, path |-> "none", log |-> <<>>, raised |-> ""]
NoCall == [amount |-> None, from_currency |-> None, to_currency |-> None]
NoConv == [called |-> FALSE, result |-> InitialResult(None, None, None),
           caught |-> "", raised |-> "", lookups |-> {}]
NoUrl == [shape |-> "none", prefix |-> <<>>, tail |-> <<>>, text |-> <<>>]
\* an extractor that has not run yet
Pending == [t |-> "pending"]
NoIds == [es |-> Pending, json |-> Pending, account |-> Pending,
          valid |-> Pending]
NoQuery == [script |-> "none", opportunity_id |-> None,
            target_currency |-> USD, sf |-> NoAnswer, response |-> NoResponse]
NoReturn == [branch |-> "none", data |-> None, fetched |-> FALSE,
             converted |-> FALSE, raised |-> <<>>]
NoAuth == [called |-> FALSE, stored |-> NoToken, accepted |-> FALSE,
           login |-> FALSE, fresh |-> NoToken, connection |-> None,
           raised |-> "", authenticated |-> 0]
NoIndex == <<>>
NoSingle ==
    [called |-> FALSE, url |-> NoUrl, option |-> None, env |-> <<>>,
     sf |-> NoAnswer, response |-> NoResponse, json_only |-> FALSE,
     es |-> None, es_config |-> None, es_ok |-> FALSE, before |-> NoIndex,
     result |-> NoResult(<<>>), queried |-> FALSE, fetched |-> FALSE,
     sent |-> FALSE]
NoRun ==
    [number |-> 0, phase |-> "none", mode |-> "single", texts |-> <<>>,
     continue_on_error |-> FALSE, option |-> FALSE, env |-> "ok",
     urls |-> <<>>, json_only |-> FALSE, es |-> None, es_config |-> None,
     results |-> <<>>, answers |-> <<>>, queried |-> <<>>,
     sent |-> <<>>]

Init ==
    /\ base_currency = USD
    /\ response = NoResponse
    /\ table = NoTable
    /\ call = NoCall
    /\ conv = NoConv
    /\ url = NoUrl
    /\ ids = NoIds
    /\ query = NoQuery
    /\ returned = NoReturn
    /\ auth = NoAuth
    /\ single = NoSingle
    /\ run = NoRun
    /\ index = NoIndex

\* get_currency_conversion_rates(base) against one answer of the rate source
FetchRates ==
    /\ table.path = "none"
    /\ \E b \in Bases, r \in Responses :
        /\ base_currency' = b
        /\ response' = r
        /\ table' = get_currency_conversion_rates(b, r)
    /\ UNCHANGED <<call, conv, url, ids, query, returned, mainVars>>

\* a caller builds the table itself
SupplyRates ==
    /\ table.path = "none"
    /\ \E t \in CallerTables :
        /\ base_currency' = t.base
        /\ table' = [NoTable EXCEPT !.rates = t.rates, !.path = "caller"]
    /\ UNCHANGED <<response, call, conv, url, ids, query, returned,
                   mainVars>>

\* convert_currency_amount(amount, from, to, table)
Convert ==
    /\ table.path \in {"live", "fallback", "caller"}
    /\ ~conv.called
    /\ \E amount \in Amounts, from \in Codes, to \in Codes :
        /\ call' = [amount |-> amount, from_currency |-> from, to_currency |-> to]
        /\ conv' = [called |-> TRUE] @@
                   convert_currency_amount(amount, from, to, table.rates)
    /\ UNCHANGED <<base_currency, response, table, url, ids, query,
                   returned, mainVars>>

Next == FetchRates \/ SupplyRates \/ Convert

Spec == Init /\ [][Next]_vars

(***************************************************************************)
(* The id extractors applied to one text                                   *)
(***************************************************************************)
currencyVars == <<base_currency, response, table, call, conv>>

\* a URL, or a bare id, arrives on the command line or from the URL file
ReadUrl ==
    /\ url = NoUrl
    /\ url' \in Urls
    /\ UNCHANGED <<ids, currencyVars, query, returned, mainVars>>

\* sf_to_elasticsearch.extract_opportunity_id(url)
ExtractOpportunityId ==
    /\ url # NoUrl /\ ids.es = Pending
    /\ ids' = [ids EXCEPT !.es = extract_opportunity_id(url.text)]
    /\ UNCHANGED <<url, currencyVars, query, returned, mainVars>>

\* sf_to_json.extract_opportunity_id(url)
JsonExtractOpportunityId ==
    /\ url # NoUrl /\ ids.json = Pending
    /\ ids' = [ids EXCEPT !.json = json_extract_opportunity_id(url.text)]
    /\ UNCHANGED <<url, currencyVars, query, returned, mainVars>>

\* sf_cases_simple.extract_account_id(url)
ExtractAccountId ==
    /\ url # NoUrl /\ ids.account = Pending
    /\ ids' = [ids EXCEPT !.account = extract_account_id(url.text)]
    /\ UNCHANGED <<url, currencyVars, query, returned, mainVars>>

\* validate_opportunity_url(url)
ValidateOpportunityUrl ==
    /\ url # NoUrl /\ ids.valid = Pending
    /\ ids' = [ids EXCEPT !.valid = JsonBool(validate_opportunity_url(url.text))]
    /\ UNCHANGED <<url, currencyVars, query, returned, mainVars>>

NextExtract ==
    ReadUrl \/ ExtractOpportunityId \/ JsonExtractOpportunityId
            \/ ExtractAccountId \/ ValidateOpportunityUrl

SpecExtract == Init /\ [][NextExtract]_vars

(***************************************************************************)
(* One query of one opportunity                                            *)
(***************************************************************************)
\* sf_to_elasticsearch.query_opportunity_data(sf, id, logger, target)
QueryOpportunityData ==
    /\ query.script = "none"
    /\ \E id \in QueryIds, target \in QueryTargets,
          sf \in SfAnswers(RawRecords), r \in QueryResponses :
        /\ query' = [script |-> "sf_to_elasticsearch", opportunity_id |-> id,
                     target_currency |-> target, sf |-> sf, response |-> r]
        /\ returned' = query_opportunity_data(sf, id, target, r)
    /\ UNCHANGED <<currencyVars, url, ids, mainVars>>

\* sf_to_json.query_opportunity_data(sf, id)
JsonQueryOpportunityData ==
    /\ query.script = "none"
    /\ \E id \in QueryIds,
          sf \in SfAnswers({JsonRecord(row) : row \in RawRecords}) :
        /\ query' = [NoQuery EXCEPT !.script = "sf_to_json",
                                    !.opportunity_id = id, !.sf = sf]
        /\ returned' = json_query_opportunity_data(sf, id)
    /\ UNCHANGED <<currencyVars, url, ids, mainVars>>

NextQuery == QueryOpportunityData \/ JsonQueryOpportunityData

SpecQuery == Init /\ [][NextQuery]_vars

(***************************************************************************)
(* get_salesforce_connection against what the sf CLI and Salesforce answer *)
(***************************************************************************)
GetSalesforceConnection ==
    /\ ~auth.called
    /\ \E stored \in DisplayOutputs, accepted \in BOOLEAN, login \in BOOLEAN,
          fresh \in DisplayOutputs :
        auth' = [called |-> TRUE, stored |-> stored, accepted |-> accepted,
                 login |-> login, fresh |-> fresh] @@
                get_salesforce_connection(stored, accepted, login, fresh)
    /\ UNCHANGED <<currencyVars, url, ids, query, returned, single, run,
                   index>>

NextAuth == GetSalesforceConnection

SpecAuth == Init /\ [][NextAuth]_vars

(***************************************************************************)
(* process_single_opportunity on one URL                                   *)
(***************************************************************************)
\* --target-currency: not given, given empty, given blank, given as a code
TargetOptions == {None, Str(<<>>), Str(<<" ">>), Str(<<"j", "p", "y">>)}

\* SF_TARGET_CURRENCY: unset, a code in lower case with a blank, a code
TargetEnvs == {<<>>, <<"e", "u", "r", " ">>, SEK}

\* sf.query raises, finds no row, finds the row, finds a row whose amount is
\* no number
SingleAnswers ==
    SfAnswers({RawRecord(Text("Big Deal"), Acme, Owner, amount, Str(EUR)) :
                 amount \in {Num(100, 1), Str(<<"n", "/", "a">>)}})
    \ {a \in SfAnswers({}) :
          a.kind = "exception" /\ a.error_str \notin {ErrorText({1}), ErrorText({6})}}

\* the rate source times out, or answers without rates
SingleResponses ==
    {r \in QueryResponses : r.kind = "timeout" \/ (r.success /\ ~r.has_rates)}


\* the document an earlier run left in the index
EarlierDocument ==
    not_found_data(Str(OpportunityPrefix \o Filler(12)), Str(USD))

\* an earlier run has stored a document
EarlierRun ==
    /\ ~single.called
    /\ index = NoIndex
    /\ index' = index_opportunity_data(index, EarlierDocument, TRUE).index
    /\ UNCHANGED <<currencyVars, url, ids, query, returned, auth, single, run>>

ProcessSingleOpportunity ==
    /\ ~single.called
    /\ \E u \in SingleUrls, option \in TargetOptions, env \in TargetEnvs,
          sf \in SingleAnswers, r \in SingleResponses,
          json_only \in BOOLEAN, es \in {None, Client},
          es_config \in {None, Config}, es_ok \in BOOLEAN :
        \E done \in {process_single_opportunity(
                         sf, u.text, es, es_config,
                         [json_only |-> json_only,
                          target_currency |-> ParseTargetCurrency(option)],
                         env, r, es_ok, index)} :
            /\ single' = [called |-> TRUE, url |-> u, option |-> option,
                          env |-> env, sf |-> sf, response |-> r,
                          json_only |-> json_only, es |-> es,
                          es_config |-> es_config, es_ok |-> es_ok,
                          before |-> index, result |-> done.result,
                          queried |-> done.queried, fetched |-> done.fetched,
                          sent |-> done.sent]
            /\ index' = done.index
    /\ UNCHANGED <<currencyVars, url, ids, query, returned, auth, run>>

NextSingle == EarlierRun \/ ProcessSingleOpportunity

SpecSingle == Init /\ [][NextSingle]_vars

(***************************************************************************)
(* Runs of main over one index                                             *)
(***************************************************************************)
MaxRuns == 2
MaxUrls == 2

\* the URLs of one opportunity with the 15- and the 18-character form of its
\* id, and a link that does not validate
Lightning == CHOOSE u \in UrlShapes : u.shape = "lightning"
Proxy == CHOOSE u \in UrlShapes : u.shape = "proxy"
Url15 == Lightning.before \o OpportunityPrefix \o Filler(12) \o Lightning.after
Url18 == Lightning.before \o OpportunityPrefix \o Filler(15) \o Lightning.after
InvalidUrl == Proxy.before \o OpportunityPrefix \o Filler(12) \o Proxy.after

\* the positional URL, or the lines of the --file
RunUrls ==
    {[mode |-> "single", texts |-> <<t>>] :
        t \in {Url15, InvalidUrl}}
    \cup {[mode |-> "file", texts |-> <<>>],
          [mode |-> "file", texts |-> <<InvalidUrl>>]}
    \cup {[mode |-> "file", texts |-> [i \in 1..n |-> f[i]]] :
            n \in 1..MaxUrls, f \in [1..MaxUrls -> {Url15, Url18}]}

\* the URLs, --continue-on-error, and what the validation makes of them
RunStarts ==
    {[mode |-> in.mode, texts |-> in.texts, continue_on_error |-> c,
      validated |-> ValidatedUrls(in.mode, in.texts, c)] :
        in \in RunUrls, c \in BOOLEAN}

\* sf.query raises, finds no row, finds the row of the opportunity
RunAnswers ==
    {a \in SingleAnswers :
        /\ a.kind = "exception" => a.error_str = ErrorText({6})
        /\ a.totalSize = 1 => a.record.Amount = Num(100, 1)}

\* main up to the loop
Main ==
    /\ run.phase \in {"none", "done", "exit", "aborted"}
    /\ run.number < MaxRuns
    /\ \E in \in RunStarts, json_only \in BOOLEAN, env \in Environments :
        \* with --json-only no Elasticsearch step is attempted, so none fails
        /\ json_only =>
              env \in {"ok", "NameError", "no library", "no connection"}
        /\ LET continue_on_error == in.continue_on_error
               validated == in.validated
               setup == ElasticsearchSetup(json_only, env)
               exits == \/ validated.exit
                        \/ env = "no connection"
                        \/ validated.urls = <<>>
               stops == env = "NameError" \/ exits
           IN  run' = [NoRun EXCEPT
                   !.number = run.number + 1,
                   !.mode = in.mode,
                   !.texts = in.texts,
                   !.continue_on_error = continue_on_error,
                   !.option = json_only,
                   !.env = env,
                   !.phase = IF env = "NameError" THEN "aborted"
                             ELSE IF exits THEN "exit" ELSE "loop",
                   !.urls = IF stops THEN <<>> ELSE validated.urls,
                   !.json_only = IF stops THEN json_only ELSE setup.json_only,
                   !.es = IF stops THEN None ELSE setup.es,
                   !.es_config = IF stops THEN None ELSE setup.es_config]
    /\ UNCHANGED <<currencyVars, url, ids, query, returned, auth, single,
                   index>>

\* one iteration of the loop of main, and what follows the last one
ProcessNextUrl ==
    /\ run.phase = "loop"
    /\ \E sf \in RunAnswers, es_ok \in BOOLEAN :
        \E done \in {process_single_opportunity(
                         sf, run.urls[Len(run.results) + 1], run.es,
                         run.es_config,
                         [json_only |-> run.json_only,
                          target_currency |-> ParseTargetCurrency(None)],
                         <<>>, [NoResponse EXCEPT !.kind = "timeout"],
                         es_ok, index)} :
        LET i == Len(run.results) + 1
            result == done.result
            results == Append(run.results, result)
            successful_count ==
                Cardinality({j \in DOMAIN results : results[j].success})
        IN  \* es.index answers only when it is called
            /\ done.sent \/ es_ok
            /\ run' = [run EXCEPT
                    !.results = results,
                    !.queried = IF done.queried
                                THEN Append(@, result.opportunity_id) ELSE @,
                    !.sent = IF done.sent
                             THEN Append(@, [at |-> i, doc |-> result.data,
                                             ok |-> es_ok])
                             ELSE @,
                    !.answers = Append(@, sf),
                    !.phase =
                        IF StopsOnError(result, run.continue_on_error)
                        THEN "exit"
                        ELSE IF i < Len(run.urls) THEN "loop"
                        ELSE IF run.mode = "single" /\ successful_count = 0
                        THEN "exit"
                        ELSE "done"]
            /\ index' = done.index
    /\ UNCHANGED <<currencyVars, url, ids, query, returned, auth, single>>

NextRun == Main \/ ProcessNextUrl

SpecRun == Init /\ [][NextRun]_vars




(***************************************************************************)
(* Properties of convert_currency_amount                                   *)
(***************************************************************************)
Zero == Num(0, 1)
IsMissing(code) == code = None \/ code = Str(<<>>)
NonZeroAmount == call.amount # None /\ call.amount # Zero
BothCodes == ~IsMissing(call.from_currency) /\ ~IsMissing(call.to_currency)
FromCode == Strip(Upper(call.from_currency.s))
ToCode == Strip(Upper(call.to_currency.s))
\* a call that reaches the arithmetic
Computes ==
    /\ conv.called /\ NonZeroAmount /\ BothCodes
    /\ FromCode # ToCode
    /\ FromCode \in DOMAIN table.rates

\* C1: a call whose amount is zero or absent succeeds with converted amount 0
\* and the note "Zero amount", whatever the currencies and the table are.
C1_ZeroAmountFirst ==
    conv.called /\ ~NonZeroAmount =>
        /\ conv.raised = ""
        /\ conv.result.conversion_successful
        /\ conv.result.converted_amount = Zero
        /\ conv.result.conversion_note = Note("Zero amount", <<>>)

C1_Witness ==
    /\ conv.called
    /\ call.amount = None /\ call.from_currency = None /\ call.to_currency = Str(<<>>)
    /\ table.path = "caller" /\ table.rates = <<>>
    /\ conv.result.converted_amount = Zero

\* C2: with a non-zero amount and a missing (None or empty) source or target
\* code the call fails with the note "Missing currency information" and the
\* converted amount equal to the original amount.
C2_MissingCurrency ==
    conv.called /\ NonZeroAmount /\ ~BothCodes =>
        /\ conv.raised = ""
        /\ ~conv.result.conversion_successful
        /\ conv.result.conversion_note = Note("Missing currency information", <<>>)
        /\ conv.result.converted_amount = call.amount

C2_Witness ==
    /\ conv.called
    /\ call.amount = Num(100, 1)
    /\ call.from_currency = Str(<<>>) /\ call.to_currency = Str(USD)
    /\ conv.result.converted_amount = Num(100, 1)
    /\ ~conv.result.conversion_successful

\* C3: with a non-zero amount and two codes equal after upper-casing and
\* trimming the call succeeds with rate 1.0, the amount unchanged and the note
\* "Same currency", and reads no key of the rate table.
C3_SameCurrency ==
    conv.called /\ NonZeroAmount /\ BothCodes /\ FromCode = ToCode =>
        /\ conv.raised = ""
        /\ conv.result.conversion_successful
        /\ conv.result.conversion_rate = One
        /\ conv.result.converted_amount = call.amount
        /\ conv.result.conversion_note = Note("Same currency", <<>>)
        /\ conv.lookups = {}

C3_Witness ==
    /\ conv.called
    /\ call.amount = Num(100, 1)
    /\ call.from_currency = Str(<<"u","s","d"," ">>) /\ call.to_currency = Str(USD)
    /\ conv.result.conversion_note = Note("Same currency", <<>>)

\* C4: with a non-zero amount and distinct codes whose normalized source is
\* no key of the table the call fails with the amount unchanged, rate 1.0 and
\* a note naming the source currency.
C4_UnknownSource ==
    conv.called /\ NonZeroAmount /\ BothCodes /\ FromCode # ToCode
                /\ FromCode \notin DOMAIN table.rates =>
        /\ conv.raised = ""
        /\ ~conv.result.conversion_successful
        /\ conv.result.converted_amount = call.amount
        /\ conv.result.conversion_rate = One
        /\ conv.result.conversion_note =
               Note("Conversion rate not available for ", FromCode)

C4_Witness ==
    /\ conv.called
    /\ call.amount = Num(100, 1)
    /\ call.from_currency = Str(SEK) /\ call.to_currency = Str(USD)
    /\ table.path = "caller" /\ table.rates = (USD :> One)
    /\ conv.result.conversion_note = Note("Conversion rate not available for ", SEK)

\* C5: in a call that reaches the arithmetic, a target equal to the table's
\* base gives round(amount * rate[from], 2) and any other target with a usable
\* rate gives round(amount * rate[from] / rate[to], 2): the branch follows the
\* table's base, not the literal 'USD'.
C5_BranchByTableBase ==
    Computes /\ (ToCode = base_currency
                 \/ (ToCode \in DOMAIN table.rates /\ table.rates[ToCode] # Zero)) =>
        /\ conv.result.conversion_successful
        /\ conv.result.converted_amount =
               RoundMul(call.amount,
                        IF ToCode = base_currency
                        THEN table.rates[FromCode]
                        ELSE Div(table.rates[FromCode], table.rates[ToCode]),
                        2)

\* The rate convert_currency_amount applies in a call that reaches the
\* arithmetic without dividing by zero, before any rounding.
UnroundedRate ==
    IF ToCode = USD
    THEN table.rates[FromCode]
    ELSE Div(table.rates[FromCode], Get(table.rates, ToCode, One))

IsNoOp ==
    conv.result.conversion_note \in
        {Note("Zero amount", <<>>), Note("Same currency", <<>>)}

\* C6 as stated: every successful result outside the two no-op cases has
\* converted_amount = round(original_amount * conversion_rate, 2), with
\* conversion_rate the rate the result reports.
C6_ReportedRateInvariant ==
    conv.called /\ conv.result.conversion_successful /\ ~IsNoOp =>
        conv.result.converted_amount =
            RoundMul(conv.result.original_amount, conv.result.conversion_rate, 2)

\* C6 as amended: every successful result outside the two no-op cases has
\* converted_amount = round(original_amount * r, 2) and conversion_rate =
\* round(r, 6), where r is the unrounded rate applied; in the two no-op cases
\* the result is successful with conversion_rate 1.0.
C6_AppliedRateInvariant ==
    /\ conv.called /\ conv.result.conversion_successful /\ ~IsNoOp =>
        /\ Computes
        /\ conv.result.converted_amount =
               RoundMul(conv.result.original_amount, UnroundedRate, 2)
        /\ conv.result.conversion_rate = Round(UnroundedRate, 6)
    /\ conv.called /\ IsNoOp =>
        /\ conv.result.conversion_successful
        /\ conv.result.conversion_rate = One

\* 100000 JPY to USD at a live rate of 150 JPY per USD: 666.67 is returned,
\* and the reported rate 0.006667 would give 666.70.
C6_Witness ==
    /\ conv.called /\ conv.result.conversion_successful /\ ~IsNoOp
    /\ call.amount = Num(100000, 1)
    /\ conv.result.converted_amount = Num(66667, 100)
    /\ conv.result.conversion_rate = Num(6667, 1000000)
    /\ RoundMul(call.amount, conv.result.conversion_rate, 2) = Num(66670, 100)

\* a call that reaches the arithmetic and divides by a zero target rate
DividesByZero ==
    /\ Computes
    /\ ToCode # USD
    /\ ToCode \in DOMAIN table.rates
    /\ table.rates[ToCode] = Zero

\* C7: no exception of the arithmetic reaches the caller; a division by a
\* zero target rate returns a failure whose note carries the exception text
\* and whose converted amount is the original amount.
C7_ArithmeticErrorCaught ==
    /\ conv.called => conv.raised = ""
    /\ DividesByZero =>
        /\ ~conv.result.conversion_successful
        /\ conv.result.conversion_note =
               Note("Conversion calculation error: ", <<"float division by zero">>)
        /\ conv.result.converted_amount = call.amount

C7_Witness ==
    /\ DividesByZero
    /\ conv.caught = "ZeroDivisionError"
    /\ call.amount = Num(100, 1)
    /\ conv.result.converted_amount = Num(100, 1)

(***************************************************************************)
(* Properties of get_currency_conversion_rates                             *)
(***************************************************************************)
Fetched == response.kind # "none"

\* a response on which the fetch or the parsing fails with an exception
FetchFails ==
    \/ response.kind \in {"network_error", "timeout", "not_json", "not_object"}
    \/ /\ response.kind = "object" /\ response.success /\ response.has_rates
       /\ \E c \in DOMAIN response.rates : response.rates[c].t # "num"

\* C8: whatever the rate source answers and whatever base is requested, the
\* call raises nothing and returns a non-empty table, live or fallback; a
\* failed fetch falls back and is logged as a warning.
C8_NeverRaises ==
    Fetched =>
        /\ table.raised = ""
        /\ table.path \in {"live", "fallback"}
        /\ DOMAIN table.rates # {}
        /\ FetchFails =>
            /\ table.path = "fallback"
            /\ \E i \in DOMAIN table.log : table.log[i] = "warning"

C8_Witness ==
    /\ Fetched
    /\ response.kind = "timeout"
    /\ base_currency = SEK
    /\ table.path = "fallback"
    /\ EUR \in DOMAIN table.rates

\* C9: on the live and on the fallback path the returned table has the
\* requested base currency as a key, mapped to exactly 1.0.
C9_BaseMapsToOne ==
    Fetched =>
        /\ base_currency \in DOMAIN table.rates
        /\ table.rates[base_currency] = One

\* C10: every entry of the returned table is in units of the requested base
\* per 1 unit of the currency.  On the fallback path with a non-USD base each
\* entry is fallback[X] / fallback[base]; on the live path each entry of a
\* positive live rate is its inverse, and an entry of a zero or negative live
\* rate is not left at the USD-relative static rate.
C10_BaseRelativeEntries ==
    /\ Fetched /\ table.path = "fallback" /\ base_currency # USD =>
        /\ base_currency \in DOMAIN fallback_rates
        /\ \A c \in DOMAIN table.rates :
              table.rates[c] = Div(fallback_rates[c], fallback_rates[base_currency])
    /\ Fetched /\ table.path = "live" =>
        \A c \in (DOMAIN response.rates) \ {base_currency} :
            /\ response.rates[c].n > 0 =>
                  table.rates[c] = Div(One, response.rates[c])
            /\ response.rates[c].n <= 0 /\ base_currency # USD
                                        /\ c \in DOMAIN fallback_rates =>
                  table.rates[c] # fallback_rates[c]

\* C11: a successful answer whose JSON body has the documented shape
\* {"rates": {code: positive number, ...}} yields the live table, each
\* non-base currency X mapped to 1 / rates[X], and no fallback to the static
\* table.
C11_LiveTableOnDocumentedShape ==
    /\ Fetched /\ response.kind = "object" /\ response.has_rates
    /\ \A c \in DOMAIN response.rates :
          IsNum(response.rates[c]) /\ Positive(response.rates[c])
    =>
    /\ table.path = "live"
    /\ \A c \in (DOMAIN response.rates) \ {base_currency} :
          table.rates[c] = Div(One, response.rates[c])

(***************************************************************************)
(* Properties of the id extractors                                         *)
(***************************************************************************)
\* the id-like run put in the text
Embedded == url.prefix \o url.tail
AllAlnum(s) == \A i \in DOMAIN s : s[i] \in Alnum
\* the text holds the prefix '006' followed by 12 to 15 alphanumerics, no more
ContainsValidId(text) ==
    \E p \in 1..Len(text) :
        /\ p + 2 <= Len(text)
        /\ SubSeq(text, p, p + 2) = OpportunityPrefix
        /\ AlnumRun(text, p + 3) \in 12..15
\* the record-id convention
Conventional(v, prefix) ==
    /\ v.t = "str"
    /\ StartsWith(v.s, prefix)
    /\ Len(v.s) \in 15..18
    /\ \A i \in DOMAIN v.s : i > Len(prefix) => v.s[i] \in Alnum

\* C12: a valid opportunity id ('006' and 12 to 15 alphanumerics), bare or
\* embedded in a supported URL shape, is returned exactly, unchanged and
\* untruncated, by extract_opportunity_id of both scripts, whatever other
\* text (host name, path segments, query string) the URL contains.
C12_ReturnsEmbeddedId ==
    /\ url.prefix = OpportunityPrefix
    /\ Len(url.tail) \in 12..15 /\ AllAlnum(url.tail)
    =>
    /\ ids.es # Pending => ids.es = Str(Embedded)
    /\ ids.json # Pending => ids.json = Str(Embedded)

\* C13: a text that does not hold '006' followed by an id of valid length
\* (no '006' at all, '006' and fewer than 12 alphanumerics, '006' starting
\* an alphanumeric run longer than 18) gives None.
C13_NoneWithoutValidId ==
    ids.es # Pending /\ ~ContainsValidId(url.text) => ids.es = None

\* C14: every value an extractor returns other than None starts with the
\* exact-case prefix ('006', or '001' for accounts), has a total length of
\* 15 to 18, and is alphanumeric after the prefix.
C14_ReturnedIdsConventional ==
    /\ ids.es \notin {Pending, None} => Conventional(ids.es, OpportunityPrefix)
    /\ ids.json \notin {Pending, None} =>
          Conventional(ids.json, OpportunityPrefix)
    /\ ids.account \notin {Pending, None} =>
          Conventional(ids.account, AccountPrefix)

(***************************************************************************)
(* Properties of query_opportunity_data                                    *)
(***************************************************************************)
Harvested == query.script = "sf_to_elasticsearch"
ZeroRows == query.sf.kind = "result" /\ query.sf.totalSize = 0
OneRow == query.sf.kind = "result" /\ query.sf.totalSize = 1
QueryRaised == query.sf.kind = "exception"
Has(marker) == Contains(query.sf.error_str, marker)
CustomField == Has("No such column") /\ Has("__c")
\* the keys of the output document
DocumentKeys ==
    {"opportunity_id", "opportunity_name", "description", "amount",
     "currency_iso_code", "amount_converted", "converted_currency",
     "conversion_rate", "conversion_successful", "conversion_note",
     "close_date", "stage_name", "type", "probability", "is_won", "is_closed",
     "account_id", "account_name", "owner_id", "owner_name", "created_date",
     "last_modified_date", "extracted_at", "source", "error_status",
     "error_message"}

C16_InvalidFieldAlways ==
    Harvested /\ QueryRaised /\ Has("INVALID_FIELD") =>
        returned.data.error_status = Text("INVALID_FIELD_ERROR")

\* C16: a query exception whose text contains INVALID_FIELD, and not both
\* 'No such column' and '__c', gives error_status INVALID_FIELD_ERROR,
\* whatever later markers (MALFORMED_QUERY, INSUFFICIENT_ACCESS) it holds;
\* with both 'No such column' and '__c' it gives CUSTOM_FIELD_ERROR.
C16_InvalidFieldUnlessCustom ==
    Harvested /\ QueryRaised /\ Has("INVALID_FIELD") =>
        /\ ~CustomField =>
              returned.data.error_status = Text("INVALID_FIELD_ERROR")
        /\ CustomField =>
              returned.data.error_status = Text("CUSTOM_FIELD_ERROR")

C16_Witness ==
    /\ Harvested /\ QueryRaised
    /\ Has("INVALID_FIELD") /\ Has("MALFORMED_QUERY") /\ Has("No such column")
    /\ ~Has("__c")
    /\ returned.data.error_status = Text("INVALID_FIELD_ERROR")

\* C17: the classification is total and ordered.  Every exception text gets
\* exactly one of the five error types, the one of the first rule it matches
\* in the order custom field, invalid field, malformed query, access, and
\* QUERY_ERROR when it matches none; nothing is raised, and error_message
\* holds the raw exception text.
C17_ClassificationTotalOrdered ==
    Harvested /\ QueryRaised =>
        /\ returned.raised = <<>>
        /\ returned.branch = "error"
        /\ returned.data.error_status =
              Text(IF CustomField THEN "CUSTOM_FIELD_ERROR"
                   ELSE IF Has("INVALID_FIELD") THEN "INVALID_FIELD_ERROR"
                   ELSE IF Has("MALFORMED_QUERY") THEN "MALFORMED_QUERY_ERROR"
                   ELSE IF Has("INSUFFICIENT_ACCESS") THEN "ACCESS_ERROR"
                   ELSE "QUERY_ERROR")
        /\ returned.data.error_message.arg = query.sf.error_str

C17_Witness ==
    /\ Harvested /\ QueryRaised
    /\ query.sf.error_str = ErrorParts
    /\ returned.data.error_status = Text("CUSTOM_FIELD_ERROR")
    /\ returned.data.error_message.arg = ErrorParts

\* C18: the found, the not-found and the error document all have exactly the
\* same keys, error_status and error_message among them.
C18_SameKeysInEveryCase ==
    Harvested => DOMAIN returned.data = DocumentKeys

\* the rest of the row maps: it has a name and its amount is no text
RowMaps ==
    /\ OneRow
    /\ "Name" \in DOMAIN query.sf.record
    /\ Harvested => Get(query.sf.record, "Amount", None).t # "str"
    /\ ~Harvested => "Amount" \in DOMAIN query.sf.record
Missing(relation) ==
    \/ relation \notin DOMAIN query.sf.record
    \/ query.sf.record[relation] = None

\* C19: a row whose Account or Owner relation is absent or null gives, in
\* both scripts, a found document with no error status set and with that
\* relation's id and name null; nothing is raised and no error document is
\* made of it.
C19_MissingRelationIsNull ==
    RowMaps /\ (Missing("Account") \/ Missing("Owner")) =>
        /\ returned.raised = <<>>
        /\ returned.branch = "found"
        /\ "error_status" \notin DOMAIN returned.data
        /\ Missing("Account") =>
              returned.data.account_id = None /\ returned.data.account_name = None
        /\ Missing("Owner") =>
              returned.data.owner_id = None /\ returned.data.owner_name = None

C19_Witness ==
    /\ Harvested /\ RowMaps
    /\ "Account" \notin DOMAIN query.sf.record
    /\ "Owner" \in DOMAIN query.sf.record /\ query.sf.record["Owner"] = None
    /\ returned.branch = "found"
    /\ returned.data.account_name = None /\ returned.data.owner_id = None

C29_AbsentTargetRateIsOne ==
    Computes /\ ToCode # USD /\ ToCode \notin DOMAIN table.rates =>
        /\ conv.raised = "" /\ conv.caught = ""
        /\ conv.result.conversion_successful
        /\ conv.result.conversion_rate = Round(table.rates[FromCode], 6)
        /\ conv.result.converted_amount =
              RoundMul(call.amount, table.rates[FromCode], 2)

C29_Witness ==
    /\ Computes /\ table.path = "fallback" /\ base_currency = USD
    /\ FromCode = EUR /\ ToCode = SEK
    /\ call.amount = Num(100, 1)
    /\ conv.result.conversion_successful
    /\ conv.result.converted_amount = Num(118, 1)

\* the indicator is in the URL, as the URL is written
Indicates(i) == In(salesforce_indicators[i], url.text)

\* C27: validate_opportunity_url is true exactly when the URL is a non-empty
\* string that holds at least one of the four indicators ('.salesforce.com',
\* '.lightning.force.com', '/lightning/r/Opportunity/', 'Opportunity%2F')
\* and an opportunity id can be extracted from it; each indicator alone is
\* enough for the first condition.
C27_ValidIffIndicatorAndId ==
    ids.valid # Pending =>
        (ids.valid.b <=>
            /\ url.text # <<>>
            /\ \E i \in DOMAIN salesforce_indicators : Indicates(i)
            /\ extract_opportunity_id(url.text) # None)

\* the first `sf org display` yields a token and an instance URL
StoredToken ==
    auth.stored.instance_url # None /\ HasToken(auth.stored)

\* C25: the interactive login runs exactly when no stored token is
\* available or the stored one fails validation, and at most once per call;
\* the call returns a connection whose token and instance URL are non-empty,
\* or raises.
C25_LoginExactlyWhenNoValidToken ==
    auth.called =>
        /\ auth.authenticated \in {0, 1}
        /\ auth.authenticated = 1 <=> (~StoredToken \/ ~auth.accepted)
        /\ \/ auth.raised # ""
           \/ /\ auth.connection # None
              /\ auth.connection.access_token \notin {None, Str(<<>>)}
              /\ auth.connection.instance_url \notin {None, Str(<<>>)}

\* C26: run without a --target-currency option and with SF_TARGET_CURRENCY
\* set, the document is converted to the environment's currency, upper-cased
\* and trimmed; USD is the target only when neither is given.
C26_EnvironmentUsedWithoutOption ==
    single.called /\ single.queried =>
        LET data == single.result.data
        IN  /\ single.option = None /\ Strip(Upper(single.env)) # <<>> =>
                data.converted_currency = Str(Strip(Upper(single.env)))
            /\ data.converted_currency = Str(USD) =>
                /\ single.option \in {None, Str(<<>>)}
                /\ Strip(Upper(single.env)) = <<>>

\* the documents the index holds for the opportunity the URLs name: those
\* whose id is its 15-character id or the 18-character form of it
DocumentsOfOpportunity ==
    {k \in DOMAIN index :
        /\ Len(k.s) \in {15, 18}
        /\ SubSeq(k.s, 1, 15) = OpportunityPrefix \o Filler(12)}

\* C21: after any sequence of runs over the same opportunity, whatever the
\* outcomes and whichever form of the id the URL carried, the index holds at
\* most one document for it.
C21_AtMostOneDocumentPerOpportunity ==
    Cardinality(DocumentsOfOpportunity) <= 1

\* the query for URL i raised or returned no row
QueryFailed(i) ==
    run.answers[i].kind = "exception" \/ run.answers[i].totalSize = 0

\* `data.get('error_status') is not None`
IsErrorDocument(data) == data # None /\ Get(data, "error_status", None) # None

\* the indexing call made for URL i failed
IndexingFailed(i) ==
    \E c \in DOMAIN run.sent : run.sent[c].at = i /\ ~run.sent[c].ok

\* C22: a query that raises or returns no row for URL i yields an error
\* document and a result marked success, and the run goes on to the next URL
\* (or ends normally after the last), with or without --continue-on-error and
\* also when indexing that document fails.
C22_QueryFailureNeverAborts ==
    \A i \in DOMAIN run.results :
        QueryFailed(i) =>
            /\ IsErrorDocument(run.results[i].data)
            /\ run.results[i].success
            /\ i = Len(run.results) =>
                  run.phase = IF i < Len(run.urls) THEN "loop" ELSE "done"

C22_Witness ==
    /\ ~run.continue_on_error
    /\ Len(run.results) = 2
    /\ QueryFailed(1) /\ IndexingFailed(1)
    /\ run.results[1].success
    /\ run.phase = "done"

C24_ExtractionFailureIsAValue ==
    single.called /\ ExtractedId[single.url.text] = None =>
        /\ single.result = [NoResult(single.url.text) EXCEPT !.error =
                               Text("Could not extract opportunity ID from URL")]
        /\ ~single.queried /\ ~single.fetched /\ ~single.sent
        /\ index = single.before

C24_Witness ==
    /\ single.called
    /\ single.url.shape = "lightning" /\ single.url.tail = Filler(3)
    /\ single.sf.totalSize = 1
    /\ ~single.json_only /\ single.es = Client /\ single.es_config = Config
    /\ single.es_ok
    /\ single.before # NoIndex
    /\ ~single.result.success /\ single.result.error # None
    /\ index = single.before

\* a step of the Elasticsearch setup failed in this run: the library is
\* missing, there is no configuration, it is invalid, the connection or the
\* creation of the index failed
SetupFailed ==
    run.number > 0 /\ run.env \notin {"ok", "no connection"}

\* C28: a failure of any Elasticsearch setup step switches the run to
\* JSON-only mode instead of aborting it, no document is sent to the index in
\* such a run, and documents are sent only when every step succeeded and
\* --json-only was not given.
C28_SetupFailureMeansJsonOnly ==
    /\ SetupFailed =>
          /\ run.phase # "aborted"
          /\ run.phase \in {"loop", "done"} => run.json_only
          /\ run.sent = <<>>
    /\ run.sent # <<>> => run.env = "ok" /\ ~run.option

\* indexing call c of the run succeeded and no later call of the run
\* succeeded for the same id
LatestStored(c) ==
    /\ run.sent[c].ok
    /\ \A d \in DOMAIN run.sent :
          d > c /\ run.sent[d].ok => DocId(run.sent[d].doc) # DocId(run.sent[c].doc)

\* C30: the document the index holds for an id is the one of the most recent
\* successful indexing call for it, a failed call changing nothing; and once
\* the sentinel of a failed query has been indexed, no found document of the
\* opportunity is left in the index: the sentinel has replaced it.
C30_LatestSuccessfulDocumentWins ==
    /\ \A c \in DOMAIN run.sent :
          LatestStored(c) =>
              /\ DocId(run.sent[c].doc) \in DOMAIN index
              /\ index[DocId(run.sent[c].doc)] = run.sent[c].doc
    /\ \A c \in DOMAIN run.sent :
          /\ c = Len(run.sent)
          /\ run.sent[c].ok
          /\ IsErrorDocument(run.sent[c].doc)
          => \A k \in DocumentsOfOpportunity : IsErrorDocument(index[k])

====
